---------------------------- MODULE Spec2Model ----------------------------
(***************************************************************************)
(* Model of the particles simulation engine (src/particles.rs) and of the  *)
(* front end that drives it (src/main.rs).                                 *)
(*                                                                         *)
(* Fixed-point representation of the f32 quantities of the source:         *)
(*   time, timers, dt, dust life     milliseconds                          *)
(*   x, y (particles and dust)       centipixels (1/100 px)                *)
(*   dust dx, dy                     centipixels per second                *)
(*   sway                            milliradians                          *)
(*   sway_speed                      milliradians per second               *)
(*   wind_sensitivity                1/1000                                *)
(*   base_speed                      1/40                                  *)
(*   gravity                         1/2   (0.5 .. 5.0 is 1 .. 10)         *)
(*   wind                            1/10  (0.0 .. 1.0 is 0 .. 10)         *)
(*   radius                          pixels (always a whole number)        *)
(*   random()                        1/2^24 (the f32 result has a 24-bit   *)
(*                                   significand, so this is exact for     *)
(*                                   every result >= 2^-24)                *)
(* The 32-bit RNG word is kept as two 16-bit halves <<hi, lo>>.            *)
(***************************************************************************)
EXTENDS Integers, Sequences, FiniteSets, TLC

\* ------------------------------------------------------------------ constants
MAX_PARTICLES == 12
MAX_DUST == 50
SCREEN_WIDTH == 320
GROUND_LEVEL == 150
COLLISION_COOLDOWN_TIME == 3000
TRIGGER_DURATION == 50
VERBOSE_DURATION == 1000
GLOBAL_FALL_SPEED == 5
PARTICLE_MIN_SIZE == 3
PARTICLE_MAX_SIZE == 10
PARTICLE_TYPES == 7
DEFAULT_MAX_PARTICLES == 6
DEFAULT_SEED == <<4660, 22136>>   \* 0x1234, 0x5678

\* ------------------------------------------------------------------ 32-bit words
Pow2(n) == 2 ^ n

\* bitwise exclusive or of two naturals, bit by bit
RECURSIVE XorBits(_, _)
XorBits(a, b) ==
  IF a = 0 THEN b
  ELSE IF b = 0 THEN a
  ELSE ((a + b) % 2) + 2 * XorBits(a \div 2, b \div 2)

\* the exclusive or of every pair of 4-bit values, computed once
XorTable == [a \in 0..15 |-> [b \in 0..15 |-> XorBits(a, b)]]

\* bitwise exclusive or of two 16-bit values, four bits at a time
Xor16(a, b) ==
  4096 * XorTable[a \div 4096][b \div 4096]
    + 256 * XorTable[(a \div 256) % 16][(b \div 256) % 16]
    + 16 * XorTable[(a \div 16) % 16][(b \div 16) % 16]
    + XorTable[a % 16][b % 16]

\* w ^ v on u32
Xor32(w, v) == <<Xor16(w[1], v[1]), Xor16(w[2], v[2])>>

\* the shift of line 194 by no bit at all
Shl13_mut(w) == w

\* w << 13 on u32 (bits shifted out of the word are dropped)
Shl13(w) == <<(w[1] % 8) * 8192 + (w[2] \div 8), (w[2] % 8) * 8192>>

\* w >> 17 on u32
Shr17(w) == <<0, w[1] \div 2>>

\* w << 5 on u32
Shl5(w) == <<(w[1] % 2048) * 32 + (w[2] \div 2048), (w[2] % 2048) * 32>>

\* x ^= x << 13 (line 194)
XorShl13(w) == Xor32(w, Shl13(w))

\* x ^= x >> 17 (line 195)
XorShr17(w) == Xor32(w, Shr17(w))

\* x ^= x << 5 (line 196)
XorShl5(w) == Xor32(w, Shl5(w))

\* the three xorshift steps of random(), lines 194-196
XorShift(w) == XorShl5(XorShr17(XorShl13(w)))

\* number of significant bits of a 16-bit value
RECURSIVE BitLen16(_)
BitLen16(a) == IF a = 0 THEN 0 ELSE 1 + BitLen16(a \div 2)

BitLen32(w) == IF w[1] > 0 THEN 16 + BitLen16(w[1]) ELSE BitLen16(w[2])

\* a word of 24 + d bits, d > 0, cut to a 24-bit significand m with the
\* exponent d: the d low bits are rounded off to nearest, ties to even
RoundF32(w, d) ==
  LET m0  == w[1] * Pow2(16 - d) + (w[2] \div Pow2(d))
      rem == w[2] % Pow2(d)
  IN  [m |-> IF 2 * rem > Pow2(d) \/ (2 * rem = Pow2(d) /\ m0 % 2 = 1)
             THEN m0 + 1 ELSE m0,
       d |-> d]

\* `w as f32': the nearest f32 (ties to even), as [m, d] standing for
\* m * 2^d with m <= 2^24.  Words below 2^24 convert exactly (d = 0).
AsF32(w) ==
  IF BitLen32(w) <= 24
  THEN [m |-> w[1] * 65536 + w[2], d |-> 0]
  ELSE RoundF32(w, BitLen32(w) - 24)

\* f / (u32::MAX as f32) in units of 2^-24.  u32::MAX as f32 is 2^32, so
\* the quotient is m * 2^d / 2^32 = m * 2^d / 2^8 in these units.
DivMaxF32(f) == f.m \div Pow2(8 - f.d)

\* (w as f32) / (u32::MAX as f32)
RandomValue(w) == DivMaxF32(AsF32(w))

\* the value 1.0 in the units of RandomValue
ONE == Pow2(24)

\* the f32 constant 0.8 (0x3F4CCCCD) in the units of RandomValue
SPAWN_THRESHOLD == 13421773


\* ------------------------------------------------------------------ records
\* Particle::default()
DefaultParticle ==
  [x |-> 0, y |-> 0, base_speed |-> 0, sway |-> 0, sway_speed |-> 0,
   wind_sensitivity |-> 0, radius |-> 0, particle_type |-> 0,
   last_collision_time |-> 0, active |-> FALSE]

\* Dust::default()
DefaultDust ==
  [x |-> 0, y |-> 0, dx |-> 0, dy |-> 0, brightness |-> 0, life |-> 0,
   active |-> FALSE]

\* History kept beside the engine for the properties below.
\* fired_at[i] is the time of the last fired collision that the particle now
\* living in slot i took part in, NEVER when it has not collided since its
\* spawn.  log is what the last call did; an entry of log.fired is
\* <<i, j, fired_at[i], fired_at[j], v, w>> with the times as they were just
\* before that collision fired, the collision value v drawn for the pair and
\* the RNG word w that draw left.  log.pass_grounded is the set of slots that
\* were active with y >= GROUND_LEVEL when check_collisions began.
NEVER == 0 - 1

EmptyLog ==
  [op |-> "new", dt |-> 0, landed |-> <<>>, dec_at_zero |-> FALSE,
   spawn_called |-> FALSE, spawned |-> 0, expired |-> <<>>,
   dust_spawned |-> <<>>, dust_full |-> FALSE, fired |-> <<>>,
   blocked |-> <<>>, pass_grounded |-> {}, drawn |-> 0]

\* ------------------------------------------------------------------ RNG
\* An engine `s' is the record of the fields of ParticlesSystem.  Each of
\* the RNG operations returns the engine after the draw and the value drawn.

\* the engine with its RNG word set to w, and w as a fraction of u32::MAX
Drawn(s, w) == [s |-> [s EXCEPT !.rng_state = w], v |-> RandomValue(w)]

\* random(): advance the word, return it as a fraction of u32::MAX
random(s) == Drawn(s, XorShift(s.rng_state))

\* min + r.v * (max - min) for a draw r; min and max are in the caller's
\* unit, max - min < 2^15, and the product is cut to that unit
Scaled(r, min, max) ==
  [s |-> r.s, v |-> min + ((r.v \div 256) * (max - min)) \div 65536]

\* random_range(min, max) = min + random() * (max - min)
random_range(s, min, max) == Scaled(random(s), min, max)

\* random_int(min, max) = random_range(min, max + 1) as i32
random_int(s, min, max) == random_range(s, min, max + 1)

\* ------------------------------------------------------------------ activation
\* index of the last inactive slot of a pool, 0 when there is none
RECURSIVE LastInactive(_, _, _)
LastInactive(pool, i, n) ==
  IF n < i THEN 0
  ELSE IF ~pool[n].active THEN n
  ELSE LastInactive(pool, i, n - 1)

\* index of the first inactive slot of a pool, 0 when there is none
RECURSIVE FirstInactive(_, _, _)
FirstInactive(pool, i, n) ==
  IF i > n THEN 0
  ELSE IF ~pool[i].active THEN i
  ELSE FirstInactive(pool, i + 1, n)

\* activate_particle() without the increment of active_particles
activate_particle_mut(s) ==
  LET idx == FirstInactive(s.particle_pool, 1, MAX_PARTICLES)
  IN  IF idx = 0 THEN s
      ELSE
        LET r1 == random_int(s, PARTICLE_MIN_SIZE, PARTICLE_MAX_SIZE)
            size == r1.v
            speed_factor == (3 * size + 6) * r1.s.gravity
            r2 == random_range(r1.s, 0, SCREEN_WIDTH * 100)
            r3 == random(r2.s)
            sway == ((r3.v \div 256) * 6283) \div 65536
            r4 == random_range(r3.s, 100, 300)
            r5 == random_int(r4.s, 1, PARTICLE_TYPES)
            s5 == r5.s
            p  == [x |-> r2.v, y |-> 0, base_speed |-> speed_factor,
                   sway |-> sway, sway_speed |-> r4.v,
                   wind_sensitivity |-> 700 + 300 \div size,
                   radius |-> size, particle_type |-> r5.v,
                   last_collision_time |-> s5.time - COLLISION_COOLDOWN_TIME,
                   active |-> TRUE]
        IN  [s5 EXCEPT !.particle_pool[idx] = p,
                       !.fired_at[idx] = NEVER,
                       !.log.spawned = idx]

\* activate_particle()
activate_particle(s) ==
  LET idx == FirstInactive(s.particle_pool, 1, MAX_PARTICLES)
  IN  IF idx = 0 THEN s
      ELSE
        LET r1 == random_int(s, PARTICLE_MIN_SIZE, PARTICLE_MAX_SIZE)
            size == r1.v
            speed_factor == (3 * size + 6) * r1.s.gravity
            r2 == random_range(r1.s, 0, SCREEN_WIDTH * 100)
            r3 == random(r2.s)
            sway == ((r3.v \div 256) * 6283) \div 65536
            r4 == random_range(r3.s, 100, 300)
            r5 == random_int(r4.s, 1, PARTICLE_TYPES)
            s5 == r5.s
            p  == [x |-> r2.v, y |-> 0, base_speed |-> speed_factor,
                   sway |-> sway, sway_speed |-> r4.v,
                   wind_sensitivity |-> 700 + 300 \div size,
                   radius |-> size, particle_type |-> r5.v,
                   last_collision_time |-> s5.time - COLLISION_COOLDOWN_TIME,
                   active |-> TRUE]
        IN  [s5 EXCEPT !.particle_pool[idx] = p,
                       !.active_particles = @ + 1,
                       !.fired_at[idx] = NEVER,
                       !.log.spawned = idx]

\* activate_dust()
activate_dust(s) ==
  LET idx == FirstInactive(s.dust_pool, 1, MAX_DUST)
  IN  IF idx = 0 THEN [s EXCEPT !.log.dust_full = TRUE]
      ELSE
        LET r1 == random_range(s, 0, SCREEN_WIDTH * 100)
            r2 == random_range(r1.s, 0, GROUND_LEVEL * 100)
            r3 == random(r2.s)
            dx == (((r3.v \div 256) - 32768) * r3.s.wind * 100) \div 65536
            r4 == random(r3.s)
            dy == (((r4.v \div 256) - 32768) * 500) \div 65536
            r5 == random_int(r4.s, 1, 5)
            r6 == random_range(r5.s, 3000, 10000)
            s6 == r6.s
            d  == [x |-> r1.v, y |-> r2.v, dx |-> dx, dy |-> dy,
                   brightness |-> r5.v, life |-> r6.v, active |-> TRUE]
        IN  [s6 EXCEPT !.dust_pool[idx] = d,
                       !.active_dust = @ + 1,
                       !.log.dust_spawned = Append(@, idx)]

\* ------------------------------------------------------------------ outputs
\* round(n / d) for n >= 0, d > 0
RoundDiv(n, d) == (2 * n + d) \div (2 * d)

\* particle_to_output(settings, particle):
\*   combined = 0.3 * x / screen_width + 0.5 * particle_type / 7
\*            + 0.2 * (radius - min_size) / (max_size - min_size)
\*   result   = round(combined * 65535)
\* computed exactly: combined = num / (10 * den), 65535 = 5 * 51 * 257, and
\* the division is carried out in two steps to stay inside 32-bit integers.
particle_to_output(p) ==
  LET w    == SCREEN_WIDTH * 100
      sz   == PARTICLE_MAX_SIZE - PARTICLE_MIN_SIZE
      num  == 3 * p.x * PARTICLE_TYPES * sz
              + 5 * p.particle_type * w * sz
              + 2 * (p.radius - PARTICLE_MIN_SIZE) * w * PARTICLE_TYPES
      den  == 2 * w * PARTICLE_TYPES * sz
      q0   == num \div den
      r0   == num % den
      q1   == (51 * r0) \div den
      r1   == (51 * r0) % den
  IN  13107 * q0 + 257 * q1 + RoundDiv(257 * r1, den)

\* collision_to_output(settings, value): (value + range/2) / range, clamped
\* to [0, 1], scaled to 16 bits.  value and range are in millivolts.
collision_to_output(value) ==
  LET range   == 10000
      shifted == value + range \div 2
      clamped == IF shifted < 0 THEN 0
                 ELSE IF shifted > range THEN range ELSE shifted
  IN  RoundDiv(clamped * 65535, range)

\* ------------------------------------------------------------------ motion
\* 1000 * sin(a) for a in milliradians, by Bhaskara's rational approximation
\* on centiradians (pi = 3.14): 16 x (pi - x) / (5 pi^2 - 4 x (pi - x))
HalfWave(x) ==
  LET c == x \div 10
      q == c * (314 - c)
  IN  (16000 * q) \div (492980 - 4 * q)

Sin1000(a) ==
  LET r == a % 6280
  IN  IF r < 3140 THEN HalfWave(r) ELSE 0 - HalfWave(r - 3140)

\* the loop body with the ground output taken from the fields the particle
\* had before this frame's motion step
move_particle_mut(s, i, dt) ==
  LET p0 == s.particle_pool[i]
      y1 == p0.y + (p0.base_speed * GLOBAL_FALL_SPEED * dt) \div 400
      sw == p0.sway + (p0.sway_speed * dt) \div 1000
      x1 == p0.x + (Sin1000(sw) * s.wind * p0.wind_sensitivity) \div 10000
      p1 == IF x1 < 0
            THEN [p0 EXCEPT !.x = 0, !.y = y1, !.sway = sw + 785]
            ELSE IF x1 > SCREEN_WIDTH * 100
            THEN [p0 EXCEPT !.x = SCREEN_WIDTH * 100, !.y = y1,
                            !.sway = sw - 785]
            ELSE [p0 EXCEPT !.x = x1, !.y = y1, !.sway = sw]
      s1 == [s EXCEPT !.particle_pool[i] = p1]
  IN  IF p1.y >= GROUND_LEVEL * 100
      THEN [s1 EXCEPT !.last_ground_output = particle_to_output(p0),
                      !.verbose_message = <<"Particle", particle_to_output(p0)>>,
                      !.verbose_timer = VERBOSE_DURATION,
                      !.trigger_timer = TRIGGER_DURATION,
                      !.log.landed = Append(@, [slot |-> i, p |-> p1])]
      ELSE s1

\* the loop body without the border handling of lines 303-310
move_particle_unclamped(s, i, dt) ==
  LET p0 == s.particle_pool[i]
      y1 == p0.y + (p0.base_speed * GLOBAL_FALL_SPEED * dt) \div 400
      sw == p0.sway + (p0.sway_speed * dt) \div 1000
      x1 == p0.x + (Sin1000(sw) * s.wind * p0.wind_sensitivity) \div 10000
      p1 == [p0 EXCEPT !.x = x1, !.y = y1, !.sway = sw]
      s1 == [s EXCEPT !.particle_pool[i] = p1]
  IN  IF p1.y >= GROUND_LEVEL * 100
      THEN [s1 EXCEPT !.last_ground_output = particle_to_output(p1),
                      !.verbose_message = <<"Particle", particle_to_output(p1)>>,
                      !.verbose_timer = VERBOSE_DURATION,
                      !.trigger_timer = TRIGGER_DURATION,
                      !.log.landed = Append(@, [slot |-> i, p |-> p1])]
      ELSE s1

\* body of the `for i' loop of update_particles for slot i (lines 295-331)
move_particle(s, i, dt) ==
  LET p0 == s.particle_pool[i]
      y1 == p0.y + (p0.base_speed * GLOBAL_FALL_SPEED * dt) \div 400
      sw == p0.sway + (p0.sway_speed * dt) \div 1000
      x1 == p0.x + (Sin1000(sw) * s.wind * p0.wind_sensitivity) \div 10000
      p1 == IF x1 < 0
            THEN [p0 EXCEPT !.x = 0, !.y = y1, !.sway = sw + 785]
            ELSE IF x1 > SCREEN_WIDTH * 100
            THEN [p0 EXCEPT !.x = SCREEN_WIDTH * 100, !.y = y1,
                            !.sway = sw - 785]
            ELSE [p0 EXCEPT !.x = x1, !.y = y1, !.sway = sw]
      s1 == [s EXCEPT !.particle_pool[i] = p1]
  IN  IF p1.y >= GROUND_LEVEL * 100
      THEN [s1 EXCEPT !.last_ground_output = particle_to_output(p1),
                      !.verbose_message = <<"Particle", particle_to_output(p1)>>,
                      !.verbose_timer = VERBOSE_DURATION,
                      !.trigger_timer = TRIGGER_DURATION,
                      !.log.landed = Append(@, [slot |-> i, p |-> p1])]
      ELSE s1

\* the engine with the fall speed of slot i taken from the gravity of now
Regraded(s, i) ==
  [s EXCEPT !.particle_pool[i].base_speed =
              (3 * s.particle_pool[i].radius + 6) * s.gravity]

\* the loop deriving base_speed again from the current gravity each frame
RECURSIVE move_particles_regraded(_, _, _)
move_particles_regraded(s, i, dt) ==
  IF i > MAX_PARTICLES THEN s
  ELSE IF s.particle_pool[i].active
  THEN move_particles_regraded(move_particle(Regraded(s, i), i, dt), i + 1, dt)
  ELSE move_particles_regraded(s, i + 1, dt)

\* the `for i in 0..MAX_PARTICLES' loop of update_particles
RECURSIVE move_particles(_, _, _)
move_particles(s, i, dt) ==
  IF i > MAX_PARTICLES THEN s
  ELSE IF s.particle_pool[i].active
  THEN move_particles(move_particle(s, i, dt), i + 1, dt)
  ELSE move_particles(s, i + 1, dt)

\* the deactivation loop leaving after its first iteration
RECURSIVE deactivate_particles_mut(_, _)
deactivate_particles_mut(s, k) ==
  IF k > Len(s.log.landed) \/ k > 1 THEN s
  ELSE LET i == s.log.landed[k].slot
       IN  deactivate_particles_mut(
             [s EXCEPT !.particle_pool[i].active = FALSE,
                       !.active_particles = @ - 1,
                       !.log.dec_at_zero = @ \/ s.active_particles = 0],
             k + 1)

\* the `for &i in &particles_to_deactivate' loop; the indices are the slots
\* pushed by the loop above, which the log keeps in the same order
RECURSIVE deactivate_particles(_, _)
deactivate_particles(s, k) ==
  IF k > Len(s.log.landed) THEN s
  ELSE LET i == s.log.landed[k].slot
       IN  deactivate_particles(
             [s EXCEPT !.particle_pool[i].active = FALSE,
                       !.active_particles = @ - 1,
                       !.log.dec_at_zero = @ \/ s.active_particles = 0],
             k + 1)

\* the spawn condition testing the pool capacity instead of the target
spawn_allowed_pool(s) == s.active_particles < MAX_PARTICLES

\* the spawn condition with <= for <
spawn_allowed_mut(s) == s.active_particles <= s.max_particles

\* the condition of the spawn step (line 341)
spawn_allowed(s) == s.active_particles < s.max_particles

\* the engine t with the cooldown of the particle it spawned begun at spawn
Cold(t) ==
  IF t.log.spawned = 0 THEN t
  ELSE [t EXCEPT !.particle_pool[t.log.spawned].last_collision_time = t.time]

\* the spawn step leaving the new particle at the start of a cooldown
spawn_particle_cold(s) ==
  IF spawn_allowed(s)
  THEN LET r == random(s)
       IN  IF r.v > SPAWN_THRESHOLD
           THEN Cold(activate_particle([r.s EXCEPT !.log.spawn_called = TRUE]))
           ELSE r.s
  ELSE s

\* the spawn step: the draw is made only when the count is below the target
spawn_particle(s) ==
  IF spawn_allowed(s)
  THEN LET r == random(s)
       IN  IF r.v > SPAWN_THRESHOLD
           THEN activate_particle([r.s EXCEPT !.log.spawn_called = TRUE])
           ELSE r.s
  ELSE s

\* the engine t with the collision trigger started when a particle landed
CrossTriggered(t) ==
  IF Len(t.log.landed) > 0
  THEN [t EXCEPT !.collision_trigger_timer = TRIGGER_DURATION]
  ELSE t

\* update_particles(dt) starting the collision trigger on a ground impact
update_particles_cross(s, dt) ==
  CrossTriggered(spawn_particle(deactivate_particles(move_particles(s, 1, dt), 1)))

\* update_particles(dt)
update_particles(s, dt) ==
  spawn_particle(deactivate_particles(move_particles(s, 1, dt), 1))

\* ------------------------------------------------------------------ dust
\* the dust loop body without `d.active = false'
move_dust_mut(s, k, dt) ==
  LET d0 == s.dust_pool[k]
      d1 == [d0 EXCEPT !.x = @ + (d0.dx * dt) \div 1000,
                       !.y = @ + (d0.dy * dt) \div 1000,
                       !.life = @ - dt]
  IN  IF d1.life <= 0
      THEN [s EXCEPT !.dust_pool[k] = d1,
                     !.active_dust = @ - 1,
                     !.log.dec_at_zero = @ \/ s.active_dust = 0,
                     !.log.expired = Append(@, k)]
      ELSE [s EXCEPT !.dust_pool[k] = d1]

\* body of the `for d in &mut self.dust_pool' loop for slot k (lines 349-358)
move_dust(s, k, dt) ==
  LET d0 == s.dust_pool[k]
      d1 == [d0 EXCEPT !.x = @ + (d0.dx * dt) \div 1000,
                       !.y = @ + (d0.dy * dt) \div 1000,
                       !.life = @ - dt]
  IN  IF d1.life <= 0
      THEN [s EXCEPT !.dust_pool[k] = [d1 EXCEPT !.active = FALSE],
                     !.active_dust = @ - 1,
                     !.log.dec_at_zero = @ \/ s.active_dust = 0,
                     !.log.expired = Append(@, k)]
      ELSE [s EXCEPT !.dust_pool[k] = d1]

RECURSIVE move_all_dust(_, _, _)
move_all_dust(s, k, dt) ==
  IF k > MAX_DUST THEN s
  ELSE IF s.dust_pool[k].active
  THEN move_all_dust(move_dust(s, k, dt), k + 1, dt)
  ELSE move_all_dust(s, k + 1, dt)

\* the top-up condition without the test against the pool capacity
dust_wanted_uncapped(s) == s.active_dust < s.max_particles * 8

\* the top-up condition with the particle target itself as the dust target
dust_wanted_mut(s) ==
  s.active_dust < s.max_particles /\ s.active_dust < MAX_DUST

\* the condition of the top-up loop (line 362)
dust_wanted(s) ==
  s.active_dust < s.max_particles * 8 /\ s.active_dust < MAX_DUST

\* the `while' loop of update_dust.  activate_dust leaves active_dust as it
\* is when no slot is free; the loop would then spin, which the log records
\* (dust_full) instead of diverging.
RECURSIVE top_up_dust(_)
top_up_dust(s) ==
  IF dust_wanted(s) /\ ~s.log.dust_full
  THEN top_up_dust(activate_dust(s))
  ELSE s

\* update_dust(dt)
update_dust(s, dt) == top_up_dust(move_all_dust(s, 1, dt))

\* ------------------------------------------------------------------ collisions
\* the box test of lines 379-382 (radius is in pixels, x and y in 1/100 px)
overlap(p1, p2) ==
  /\ p1.x < p2.x + p2.radius * 100
  /\ p1.x + p1.radius * 100 > p2.x
  /\ p1.y < p2.y + p2.radius * 100
  /\ p1.y + p1.radius * 100 > p2.y

\* the cooldown test against 0 instead of COLLISION_COOLDOWN_TIME
cooled_down_mut(s, p1, p2) ==
  /\ s.time - p1.last_collision_time >= 0
  /\ s.time - p2.last_collision_time >= 0

\* the cooldown test of lines 385-386
cooled_down(s, p1, p2) ==
  /\ s.time - p1.last_collision_time >= COLLISION_COOLDOWN_TIME
  /\ s.time - p2.last_collision_time >= COLLISION_COOLDOWN_TIME

\* the pair body drawing the collision value from [0, range]
check_pair_mut(s, i, j) ==
  LET p1 == s.particle_pool[i]
      p2 == s.particle_pool[j]
  IN  IF ~overlap(p1, p2) THEN s
      ELSE IF ~cooled_down(s, p1, p2)
      THEN [s EXCEPT !.log.blocked = Append(@, <<i, j>>)]
      ELSE LET r  == random_range(s, 0, 10000)
               s1 == r.s
           IN  [s1 EXCEPT !.collision_cv = r.v,
                          !.collision_output = collision_to_output(r.v),
                          !.verbose_message = <<"Collision", r.v>>,
                          !.verbose_timer = VERBOSE_DURATION,
                          !.collision_trigger_timer = TRIGGER_DURATION,
                          !.particle_pool[i].last_collision_time = s1.time,
                          !.particle_pool[j].last_collision_time = s1.time,
                          !.fired_at[i] = s1.time,
                          !.fired_at[j] = s1.time,
                          !.log.fired = Append(@, <<i, j, s.fired_at[i],
                                                    s.fired_at[j], r.v,
                                                    s1.rng_state>>)]

\* body of the inner loop of check_collisions for the pair (i, j)
check_pair(s, i, j) ==
  LET p1 == s.particle_pool[i]
      p2 == s.particle_pool[j]
  IN  IF ~overlap(p1, p2) THEN s
      ELSE IF ~cooled_down(s, p1, p2)
      THEN [s EXCEPT !.log.blocked = Append(@, <<i, j>>)]
      ELSE LET r  == random_range(s, -5000, 5000)
               s1 == r.s
           IN  [s1 EXCEPT !.collision_cv = r.v,
                          !.collision_output = collision_to_output(r.v),
                          !.verbose_message = <<"Collision", r.v>>,
                          !.verbose_timer = VERBOSE_DURATION,
                          !.collision_trigger_timer = TRIGGER_DURATION,
                          !.particle_pool[i].last_collision_time = s1.time,
                          !.particle_pool[j].last_collision_time = s1.time,
                          !.fired_at[i] = s1.time,
                          !.fired_at[j] = s1.time,
                          !.log.fired = Append(@, <<i, j, s.fired_at[i],
                                                    s.fired_at[j], r.v,
                                                    s1.rng_state>>)]

\* the engine t with the collision value and output of s when a pair had
\* already fired in s
KeepFirst(s, t) ==
  IF Len(s.log.fired) > 0
  THEN [t EXCEPT !.collision_cv = s.collision_cv,
                 !.collision_output = s.collision_output]
  ELSE t

\* the loops keeping the output of the first pair that fired
RECURSIVE check_collisions_first(_, _, _)
check_collisions_first(s, i, j) ==
  IF i > MAX_PARTICLES THEN s
  ELSE IF j > MAX_PARTICLES \/ ~s.particle_pool[i].active
  THEN check_collisions_first(s, i + 1, i + 2)
  ELSE IF ~s.particle_pool[j].active
  THEN check_collisions_first(s, i, j + 1)
  ELSE check_collisions_first(KeepFirst(s, check_pair(s, i, j)), i, j + 1)

\* check_collisions(): pairs (i, j), i < j, i ascending then j ascending
RECURSIVE check_collisions_from(_, _, _)
check_collisions_from(s, i, j) ==
  IF i > MAX_PARTICLES THEN s
  ELSE IF j > MAX_PARTICLES \/ ~s.particle_pool[i].active
  THEN check_collisions_from(s, i + 1, i + 2)
  ELSE IF ~s.particle_pool[j].active
  THEN check_collisions_from(s, i, j + 1)
  ELSE check_collisions_from(check_pair(s, i, j), i, j + 1)

\* the slots check_collisions finds active at or below ground level
Grounded(s) ==
  {i \in 1..MAX_PARTICLES :
     /\ s.particle_pool[i].active
     /\ s.particle_pool[i].y >= GROUND_LEVEL * 100}

check_collisions(s) ==
  check_collisions_from([s EXCEPT !.log.pass_grounded = Grounded(s)], 1, 2)

\* ------------------------------------------------------------------ update
\* one timer of lines 410-418: `if t > 0.0 { t -= dt }'
tick(t, dt) == IF t > 0 THEN t - dt ELSE t

\* update(dt) with the timers counted down after the three passes
update_tick_last(s, dt) ==
  LET s0 == [s EXCEPT !.time = @ + dt,
                      !.log = [EmptyLog EXCEPT !.op = "update", !.dt = dt]]
      s1 == check_collisions(update_dust(update_particles(s0, dt), dt))
  IN  [s1 EXCEPT !.verbose_timer = tick(@, dt),
                 !.trigger_timer = tick(@, dt),
                 !.collision_trigger_timer = tick(@, dt)]

\* update(dt)
update(s, dt) ==
  LET s0 == [s EXCEPT !.time = @ + dt,
                      !.verbose_timer = tick(@, dt),
                      !.trigger_timer = tick(@, dt),
                      !.collision_trigger_timer = tick(@, dt),
                      !.log = [EmptyLog EXCEPT !.op = "update", !.dt = dt]]
  IN  check_collisions(update_dust(update_particles(s0, dt), dt))

\* get_outputs()
get_outputs(s) ==
  <<s.last_ground_output, s.collision_output, s.trigger_timer > 0,
    s.collision_trigger_timer > 0>>

\* ------------------------------------------------------------------ bounds and inputs
MaxUpdates == 3
MaxSettingsCalls == 1
MaxDraws == 20
MaxFrames == 70
MaxFineUpdates == 4

\* frame times passed to update, in milliseconds
DtSet == {0, 3000, 60000}

\* values the G, W and P keys of the front end cycle through
GravitySet == {2, 10}
WindSet == {1, 10}
MaxParticlesSet == {1, 6, 12}

\* Settings.rng_seed and Settings.max_particles values the engine is
\* constructed with (0x12345678 is the default seed, 6 the default target)
Seeds == {DEFAULT_SEED, <<4604, 22136>>}
InitMaxParticles == {1, DEFAULT_MAX_PARTICLES}

\* RNG words the generator is started from when random() is examined on its
\* own.  xorshift32 with the shifts 13, 17, 5 runs through every nonzero
\* 32-bit word in one cycle, so each of them is a word the generator reaches
\* from the default seed.  0x5E6CFCE7, 0x7B28C759 and 0x54F4E5A9 come 1, 3
\* and 5 steps before 0xFFFFFFFF, 0xFFFFFF80 and 0xFFFFFFC1.
RngSeeds ==
  {DEFAULT_SEED, <<4604, 22136>>, <<24172, 64743>>, <<31528, 51033>>,
   <<21748, 58793>>}

\* ------------------------------------------------------------------ state
VARIABLES particle_pool, dust_pool, active_particles, active_dust, time,
          trigger_timer, collision_trigger_timer, verbose_timer,
          last_ground_output, collision_cv, collision_output,
          verbose_message, gravity, max_particles, wind, rng_state,
          fired_at, log, updates, settings_calls, draws

vars == <<particle_pool, dust_pool, active_particles, active_dust, time,
          trigger_timer, collision_trigger_timer, verbose_timer,
          last_ground_output, collision_cv, collision_output,
          verbose_message, gravity, max_particles, wind, rng_state,
          fired_at, log, updates, settings_calls, draws>>

\* the engine as one record
Engine ==
  [particle_pool |-> particle_pool, dust_pool |-> dust_pool,
   active_particles |-> active_particles, active_dust |-> active_dust,
   time |-> time, trigger_timer |-> trigger_timer,
   collision_trigger_timer |-> collision_trigger_timer,
   verbose_timer |-> verbose_timer,
   last_ground_output |-> last_ground_output,
   collision_cv |-> collision_cv, collision_output |-> collision_output,
   verbose_message |-> verbose_message, gravity |-> gravity,
   max_particles |-> max_particles, wind |-> wind, rng_state |-> rng_state,
   fired_at |-> fired_at, log |-> log]

\* the next state is the engine s
Becomes(s) ==
  /\ particle_pool' = s.particle_pool
  /\ dust_pool' = s.dust_pool
  /\ active_particles' = s.active_particles
  /\ active_dust' = s.active_dust
  /\ time' = s.time
  /\ trigger_timer' = s.trigger_timer
  /\ collision_trigger_timer' = s.collision_trigger_timer
  /\ verbose_timer' = s.verbose_timer
  /\ last_ground_output' = s.last_ground_output
  /\ collision_cv' = s.collision_cv
  /\ collision_output' = s.collision_output
  /\ verbose_message' = s.verbose_message
  /\ gravity' = s.gravity
  /\ max_particles' = s.max_particles
  /\ wind' = s.wind
  /\ rng_state' = s.rng_state
  /\ fired_at' = s.fired_at
  /\ log' = s.log

\* ParticlesSystem::new(settings)
new(seed, n) ==
  [particle_pool |-> [i \in 1..MAX_PARTICLES |-> DefaultParticle],
   dust_pool |-> [k \in 1..MAX_DUST |-> DefaultDust],
   active_particles |-> 0, active_dust |-> 0,
   time |-> 0, trigger_timer |-> 0, collision_trigger_timer |-> 0,
   verbose_timer |-> 0, last_ground_output |-> 0, collision_cv |-> 0,
   collision_output |-> 0, verbose_message |-> <<>>,
   gravity |-> 2, max_particles |-> n, wind |-> 1, rng_state |-> seed,
   fired_at |-> [i \in 1..MAX_PARTICLES |-> NEVER], log |-> EmptyLog]

\* the state after construction from the engine s
Constructed(s) ==
        /\ particle_pool = s.particle_pool
        /\ dust_pool = s.dust_pool
        /\ active_particles = s.active_particles
        /\ active_dust = s.active_dust
        /\ time = s.time
        /\ trigger_timer = s.trigger_timer
        /\ collision_trigger_timer = s.collision_trigger_timer
        /\ verbose_timer = s.verbose_timer
        /\ last_ground_output = s.last_ground_output
        /\ collision_cv = s.collision_cv
        /\ collision_output = s.collision_output
        /\ verbose_message = s.verbose_message
        /\ gravity = s.gravity
        /\ max_particles = s.max_particles
        /\ wind = s.wind
        /\ rng_state = s.rng_state
        /\ fired_at = s.fired_at
        /\ log = s.log
        /\ updates = 0
        /\ settings_calls = 0
        /\ draws = 0

Init == \E seed \in Seeds, n \in InitMaxParticles : Constructed(new(seed, n))

\* the main loop calls system.update(dt)
Update(dt) ==
  /\ updates < MaxUpdates
  /\ Becomes(update(Engine, dt))
  /\ updates' = updates + 1
  /\ UNCHANGED <<settings_calls, draws>>

\* update_settings(settings): the stored snapshot is replaced
update_settings(s, g, w, n) ==
  [s EXCEPT !.gravity = g, !.wind = w, !.max_particles = n,
            !.log = [EmptyLog EXCEPT !.op = "settings"]]

\* key G: settings.gravity is set to another value of its cycle
SetGravity(g) ==
  /\ settings_calls < MaxSettingsCalls
  /\ g # gravity
  /\ Becomes(update_settings(Engine, g, wind, max_particles))
  /\ settings_calls' = settings_calls + 1
  /\ UNCHANGED <<updates, draws>>

\* key W: settings.wind is set to another value of its cycle
SetWind(w) ==
  /\ settings_calls < MaxSettingsCalls
  /\ w # wind
  /\ Becomes(update_settings(Engine, gravity, w, max_particles))
  /\ settings_calls' = settings_calls + 1
  /\ UNCHANGED <<updates, draws>>

\* key P: settings.max_particles is set to another value of its cycle
SetMaxParticles(n) ==
  /\ settings_calls < MaxSettingsCalls
  /\ n # max_particles
  /\ Becomes(update_settings(Engine, gravity, wind, n))
  /\ settings_calls' = settings_calls + 1
  /\ UNCHANGED <<updates, draws>>

Next ==
  \/ \E dt \in DtSet : Update(dt)
  \/ \E g \in GravitySet : SetGravity(g)
  \/ \E w \in WindSet : SetWind(w)
  \/ \E n \in MaxParticlesSet : SetMaxParticles(n)

Spec == Init /\ [][Next]_vars

\* ------------------------------------------------------------------ the RNG alone
\* one call of random(); the value returned is kept in log.drawn
Random ==
  /\ draws < MaxDraws
  /\ LET r == random(Engine)
     IN  Becomes([r.s EXCEPT !.log = [EmptyLog EXCEPT !.op = "random",
                                                      !.drawn = r.v]])
  /\ draws' = draws + 1
  /\ UNCHANGED <<updates, settings_calls>>

InitRng == \E seed \in RngSeeds : Constructed(new(seed, DEFAULT_MAX_PARTICLES))

NextRng == Random

SpecRng == InitRng /\ [][NextRng]_vars


\* ------------------------------------------------------------------ settling
\* frame times of the updates that follow a lowering of max_particles
SettleDt == DtSet \ {0}

\* the main loop goes on calling update(dt), dt > 0, while the population is
\* above its target
SettleUpdate(dt) ==
  /\ active_particles > max_particles
  /\ Becomes(update(Engine, dt))
  /\ UNCHANGED <<updates, settings_calls, draws>>

NextSettle ==
  \/ \E dt \in DtSet : Update(dt)
  \/ \E n \in MaxParticlesSet : SetMaxParticles(n)
  \/ \E dt \in SettleDt : SettleUpdate(dt)

\* a frame of positive length passes while the population is above its
\* target: the step every update(dt), dt > 0, makes of the engine's clock
FramePasses ==
  /\ active_particles > max_particles
  /\ time' \in {time + dt : dt \in SettleDt}

\* the loop of main.rs never stops calling update, so frames keep passing
SpecSettle ==
  /\ Init
  /\ [][NextSettle]_vars
  /\ WF_time(FramePasses)

\* ------------------------------------------------------------------ a run of frames
\* the frame time of the 60 frames per second main.rs aims at, in ms
FrameDt == 16

\* 0x1F3DE966 is the word two xorshift steps before 0xFFFFFF8B: the first
\* draw from it is above 0.8 and the second is a word that converts to 2^32
FillSeeds == {DEFAULT_SEED, <<7997, 59750>>}

\* targets the engine is constructed with: the default and the pool size
FillMaxParticles == {DEFAULT_MAX_PARTICLES, MAX_PARTICLES}

InitFill ==
  \E seed \in FillSeeds, n \in FillMaxParticles : Constructed(new(seed, n))

\* one frame of the main loop with no key pressed
Frame ==
  /\ updates < MaxFrames
  /\ Becomes(update(Engine, FrameDt))
  /\ updates' = updates + 1
  /\ UNCHANGED <<settings_calls, draws>>

NextFill == Frame

SpecFill == InitFill /\ [][NextFill]_vars

\* ------------------------------------------------------------------ finer frame times
\* frame times of half a cooldown besides those of DtSet
FineDtSet == DtSet \cup {1500}

\* 0xA90A0FC7: each of the first four updates spawns a particle; the second
\* overlaps the first and the fourth overlaps the third.  0x9E7B735D: each
\* of the first three updates spawns a particle; with no time passed the
\* third overlaps the first and the second, which do not overlap each other
PairSeeds == {<<43274, 4039>>, <<40571, 29533>>}

InitPairs ==
  \E seed \in PairSeeds : Constructed(new(seed, DEFAULT_MAX_PARTICLES))

\* the main loop calls system.update(dt)
FineUpdate(dt) ==
  /\ updates < MaxFineUpdates
  /\ Becomes(update(Engine, dt))
  /\ updates' = updates + 1
  /\ UNCHANGED <<settings_calls, draws>>

NextPairs == \E dt \in FineDtSet : FineUpdate(dt)

SpecPairs == InitPairs /\ [][NextPairs]_vars

\* ================================================================== properties
ActiveSlots(pool) == {i \in DOMAIN pool : pool[i].active}

SeqRange(q) == {q[k] : k \in 1..Len(q)}

LandedSlots == {log.landed[k].slot : k \in 1..Len(log.landed)}

\* C1: active_particles and active_dust equal the number of active slots of
\* their pools, neither exceeds its array capacity, and no decrement of
\* either was made while it was 0.
C1_PoolCounters ==
  /\ active_particles = Cardinality(ActiveSlots(particle_pool))
  /\ active_dust = Cardinality(ActiveSlots(dust_pool))
  /\ active_particles <= MAX_PARTICLES
  /\ active_dust <= MAX_DUST
  /\ ~log.dec_at_zero

\* an update after a settings change landed particles and expired dust
C1_Witness ==
  /\ settings_calls > 0
  /\ Len(log.landed) > 0
  /\ Len(log.expired) > 0
  /\ log.spawned # 0
  /\ active_particles > 0

\* C2: a particle that took part in a fired collision at time T takes part
\* in no further fired collision, with the same or another particle, before
\* time T + collision_cooldown_time, as long as it is the same live particle.
C2_Cooldown ==
  \A k \in 1..Len(log.fired) :
    /\ log.fired[k][3] # NEVER
         => time >= log.fired[k][3] + COLLISION_COOLDOWN_TIME
    /\ log.fired[k][4] # NEVER
         => time >= log.fired[k][4] + COLLISION_COOLDOWN_TIME

\* a pair that had collided fires again once the cooldown has elapsed
C2_Witness ==
  \E k \in 1..Len(log.fired) :
    /\ log.fired[k][3] # NEVER
    /\ log.fired[k][4] # NEVER

\* C3 as stated: every particle that reached ground level in an update has
\* active = FALSE in its pool slot when the update returns, and the ground
\* output is the output of the fields it had before deactivation.
C3_LandedSlotInactive ==
  /\ \A i \in LandedSlots : ~particle_pool[i].active
  /\ Len(log.landed) > 0
       => last_ground_output
            = particle_to_output(log.landed[Len(log.landed)].p)

\* C3 amended: the slot of a particle that reached ground level is inactive
\* when the update returns unless the spawn step of the same update refilled
\* it with a new particle at y = 0; a slot that was not refilled still holds
\* the fields the particle landed with; no active particle is at or below
\* ground level; the ground output is that of the last particle that landed.
C3_LandedParticleGone ==
  /\ \A k \in 1..Len(log.landed) :
       LET i == log.landed[k].slot
       IN  IF particle_pool[i].active
           THEN i = log.spawned /\ particle_pool[i].y = 0
           ELSE particle_pool[i] = [log.landed[k].p EXCEPT !.active = FALSE]
  /\ \A i \in ActiveSlots(particle_pool) :
       particle_pool[i].y < GROUND_LEVEL * 100
  /\ Len(log.landed) > 0
       => last_ground_output
            = particle_to_output(log.landed[Len(log.landed)].p)

\* a particle landed and the spawn step of the same update refilled its slot
C3_Witness ==
  /\ Len(log.landed) > 0
  /\ log.spawned \in LandedSlots
  /\ particle_pool[log.spawned].active

\* C4: the three timers are never negative.
C4_TimersNonNegative ==
  /\ trigger_timer >= 0
  /\ collision_trigger_timer >= 0
  /\ verbose_timer >= 0

\* C5: while the settings are those of construction, active_particles is at
\* most max_particles after every update and an update raises it by at most
\* one.
C5_SpawnBound ==
  [][settings_calls' = 0
       => /\ active_particles' <= max_particles'
          /\ active_particles' <= active_particles + 1]_vars

\* an update found the population at its target and spawned nothing
C5_Witness ==
  /\ settings_calls = 0
  /\ updates >= 2
  /\ log.op = "update"
  /\ Len(log.landed) = 0
  /\ log.spawned = 0
  /\ active_particles = max_particles

\* the dust slots that expire in an update of frame time dt
Expiring(dt) ==
  {k \in 1..MAX_DUST : dust_pool[k].active /\ dust_pool[k].life <= dt}

\* C6 as stated: every dust slot active at the start of update(dt) with
\* life <= dt is inactive when the call returns, and active_dust was
\* decremented once for each.
C6_ExpiredDustInactive ==
  [][log'.op = "update"
       => /\ \A k \in Expiring(log'.dt) : ~dust_pool'[k].active
          /\ SeqRange(log'.expired) = Expiring(log'.dt)
          /\ Len(log'.expired) = Cardinality(Expiring(log'.dt))]_vars

\* C6 amended: every such slot is deactivated in the call, with one
\* decrement of active_dust each; when the call returns it is inactive
\* unless the top-up loop of the same call refilled it with a new dust, and
\* active_dust is its value at the start less the number of expired slots
\* plus the number of dust the top-up spawned.
C6_ExpiredDustReplaced ==
  [][log'.op = "update"
       => /\ \A k \in Expiring(log'.dt) :
               dust_pool'[k].active
                 => /\ k \in SeqRange(log'.dust_spawned)
                    /\ dust_pool'[k].life >= 3000
          /\ SeqRange(log'.expired) = Expiring(log'.dt)
          /\ Len(log'.expired) = Cardinality(Expiring(log'.dt))
          /\ active_dust' = active_dust - Cardinality(Expiring(log'.dt))
                              + Len(log'.dust_spawned)]_vars

\* some dust expired; one expired slot was refilled and another was not
C6_Witness ==
  /\ \E k \in SeqRange(log.expired) : dust_pool[k].active
  /\ \E k \in SeqRange(log.expired) : ~dust_pool[k].active

\* C8: random() returns a value v with 0 <= v < 1.
C8_RandomBelowOne ==
  log.op = "random" => 0 <= log.drawn /\ log.drawn < ONE

\* C9: collision_output is within [0, 65535] and the collision value it was
\* computed from is within [-range/2, range/2].
C9_CollisionOutputRange ==
  /\ collision_output \in 0..65535
  /\ collision_cv \in -5000..5000
  /\ Len(log.fired) > 0 => collision_output = collision_to_output(collision_cv)

\* a collision fired and wrote a collision output in the upper half
C9_Witness ==
  /\ Len(log.fired) > 0
  /\ collision_cv > 0
  /\ collision_output > 32768

C11_FixedAtSpawn ==
  [][/\ \A i \in 1..MAX_PARTICLES :
          (/\ particle_pool[i].active
           /\ particle_pool'[i].active
           /\ log'.spawned # i)
            => /\ particle_pool'[i].base_speed = particle_pool[i].base_speed
               /\ particle_pool'[i].wind_sensitivity
                    = particle_pool[i].wind_sensitivity
               /\ particle_pool'[i].radius = particle_pool[i].radius
               /\ particle_pool'[i].particle_type
                    = particle_pool[i].particle_type
     /\ log'.spawned # 0
          => particle_pool'[log'.spawned].base_speed
               = (3 * particle_pool'[log'.spawned].radius + 6) * gravity'
    ]_vars

\* after a change of gravity an update moved a particle spawned before the
\* change, which still has the fall speed of the gravity it was spawned with
C11_Witness ==
  /\ settings_calls > 0
  /\ log.op = "update"
  /\ \E i \in ActiveSlots(particle_pool) :
       /\ i # log.spawned
       /\ particle_pool[i].y > 0
       /\ particle_pool[i].base_speed
            # (3 * particle_pool[i].radius + 6) * gravity

\* C12 as stated: the collision pass of an update still finds every
\* particle that reached ground level in that update active in its slot.
C12_LandedInCollisionPass ==
  \A i \in LandedSlots : i \in log.pass_grounded

\* C13 as stated: once the settings have been changed, an update that
\* starts with active_particles >= max_particles spawns no particle.
C13_NoSpawnAtTarget ==
  [][(/\ settings_calls > 0
      /\ log'.op = "update"
      /\ active_particles >= max_particles)
       => log'.spawned = 0]_vars

\* C13 amended: an update spawns no particle when the count left after the
\* deactivation of the particles that landed in it is at or above the
\* target; a population above its target is eventually at or below it; and
\* while max_particles stays as it is a population at or below the target
\* stays there.
C13_Settles ==
  /\ [][(/\ log'.op = "update"
         /\ active_particles - Len(log'.landed) >= max_particles)
          => (log'.spawned = 0 /\ ~log'.spawn_called)]_vars
  /\ (active_particles > max_particles)
       ~> (active_particles <= max_particles)
  /\ [][(/\ active_particles <= max_particles
         /\ max_particles' = max_particles)
          => active_particles' <= max_particles']_vars

\* after the target was lowered an update of positive frame time has run
\* and the population is still above the target
C13_Witness ==
  /\ settings_calls > 0
  /\ log.op = "update"
  /\ log.dt > 0
  /\ active_particles > max_particles

\* the dust population the top-up loop aims at
DustTarget ==
  IF max_particles * 8 < MAX_DUST THEN max_particles * 8 ELSE MAX_DUST

\* C14: when update returns active_dust is at least the dust target, and it
\* is exactly the target while the settings are those of construction.
C14_DustToppedUp ==
  log.op = "update"
    => /\ active_dust >= DustTarget
       /\ settings_calls = 0 => active_dust = DustTarget

\* after the target was lowered some dust expired in an update, and more
\* dust than the target is still alive
C14_Witness ==
  /\ log.op = "update"
  /\ settings_calls > 0
  /\ Len(log.expired) > 0
  /\ active_dust > DustTarget

\* C15: every active particle has particle_type in 1..7 and radius in
\* [particle_min_size, particle_max_size], the values random_int(1, 7) and
\* random_int(3, 10) are to return.
C15_TypeAndRadiusInRange ==
  \A i \in ActiveSlots(particle_pool) :
    /\ particle_pool[i].particle_type \in 1..PARTICLE_TYPES
    /\ particle_pool[i].radius \in PARTICLE_MIN_SIZE..PARTICLE_MAX_SIZE

\* C20: whenever the spawn step of update calls the particle activation, a
\* slot is free and the call fills it.
C20_SlotAvailable ==
  log.spawn_called
    => /\ log.spawned # 0
       /\ particle_pool[log.spawned].active

\* the spawn step filled the last free slot of the pool
C20_Witness ==
  /\ log.spawn_called
  /\ log.spawned = MAX_PARTICLES
  /\ active_particles = MAX_PARTICLES

\* C16: started from a nonzero seed, rng_state is not 0 after any number
\* of calls of random().
C16_RngStateNonZero == rng_state # <<0, 0>>

\* several calls of random() were made, the last one leaving a word of the
\* top of the range
C16_Witness ==
  /\ log.op = "random"
  /\ draws >= 3
  /\ rng_state[1] = 65535

\* the collision value random_range(-5.0, 5.0) returns when its draw
\* leaves the RNG word w
CollisionValue(w) == 0 - 5000 + ((RandomValue(w) \div 256) * 10000) \div 65536

\* C17: the pairs that fire in one update fire in the order of i ascending
\* then j ascending with i < j; one value is drawn per fired pair, each from
\* the RNG word that follows the previous pair's; and the collision value
\* and output left when update returns are those of the last fired pair.
C17_LastPairWins ==
  /\ \A k \in 1..Len(log.fired) :
       /\ log.fired[k][1] < log.fired[k][2]
       /\ log.fired[k][5] = CollisionValue(log.fired[k][6])
  /\ \A k \in 1..(Len(log.fired) - 1) :
       /\ \/ log.fired[k][1] < log.fired[k + 1][1]
          \/ /\ log.fired[k][1] = log.fired[k + 1][1]
             /\ log.fired[k][2] < log.fired[k + 1][2]
       /\ log.fired[k + 1][6] = XorShift(log.fired[k][6])
  /\ Len(log.fired) > 0
       => /\ rng_state = log.fired[Len(log.fired)][6]
          /\ collision_cv = log.fired[Len(log.fired)][5]
          /\ collision_output
               = collision_to_output(log.fired[Len(log.fired)][5])

\* two pairs fired in one update with different values
C17_Witness ==
  /\ Len(log.fired) >= 2
  /\ log.fired[1][5] # log.fired[2][5]

\* the particle of slot i took part in a collision fired by the last update
FiredIn(i) ==
  \E k \in 1..Len(log.fired) : log.fired[k][1] = i \/ log.fired[k][2] = i

\* C18: a particle spawned in an update passes the cooldown test in the
\* collision pass of that update: when update returns its
\* last_collision_time is time - collision_cooldown_time unless it fired, and
\* it fired if it overlaps an active particle that did not fire in the pass
\* and whose own cooldown has elapsed.
C18_SpawnedEligible ==
  (log.op = "update" /\ log.spawned # 0)
    => /\ particle_pool[log.spawned].last_collision_time
            = IF FiredIn(log.spawned) THEN time
              ELSE time - COLLISION_COOLDOWN_TIME
       /\ \A j \in ActiveSlots(particle_pool) \ {log.spawned} :
            (/\ overlap(particle_pool[log.spawned], particle_pool[j])
             /\ ~FiredIn(j)
             /\ time - particle_pool[j].last_collision_time
                  >= COLLISION_COOLDOWN_TIME)
              => FiredIn(log.spawned)

\* a particle fired a collision in the update that spawned it
C18_Witness ==
  /\ log.op = "update"
  /\ log.spawned # 0
  /\ FiredIn(log.spawned)

\* the slots of a pool that are free for the activations of a call: those
\* inactive when the call began and those the call freed before activating
FreeSlots(pool, freed) == {i \in DOMAIN pool : ~pool[i].active} \cup freed

\* the slots of the particles that landed in the call logged by l
Landing(l) == {l.landed[k].slot : k \in 1..Len(l.landed)}

\* C19: every activation fills the lowest slot that is inactive when it is
\* made and changes no other slot.  In a call, the particle spawned takes the
\* lowest of the slots inactive at the start or freed by a landing of the
\* call; the m-th dust spawned takes the lowest of the slots inactive at the
\* start or freed by an expiry of the call that the first m - 1 dust did not
\* take; each filled slot is active afterwards, every other free slot is
\* inactive afterwards, and the ones the call did not free are unchanged.
\* The dust of a new engine fills the lowest slots of the empty pool.
C19_LowestSlot ==
  /\ [](log.op = "new" => ActiveSlots(dust_pool) = 1..active_dust)
  /\ [][/\ log'.spawned # 0
             => /\ log'.spawned \in FreeSlots(particle_pool, Landing(log'))
                /\ \A j \in FreeSlots(particle_pool, Landing(log')) :
                     j >= log'.spawned
                /\ particle_pool'[log'.spawned].active
        /\ \A j \in FreeSlots(particle_pool, Landing(log')) \ {log'.spawned} :
             /\ ~particle_pool'[j].active
             /\ j \notin Landing(log') => particle_pool'[j] = particle_pool[j]
        /\ \A m \in 1..Len(log'.dust_spawned) :
             /\ log'.dust_spawned[m]
                  \in FreeSlots(dust_pool, SeqRange(log'.expired))
             /\ \A j \in FreeSlots(dust_pool, SeqRange(log'.expired)) :
                  j < log'.dust_spawned[m]
                    => \E n \in 1..(m - 1) : log'.dust_spawned[n] = j
             /\ \A n \in 1..(m - 1) :
                  log'.dust_spawned[n] # log'.dust_spawned[m]
             /\ dust_pool'[log'.dust_spawned[m]].active
        /\ \A j \in FreeSlots(dust_pool, SeqRange(log'.expired))
                      \ SeqRange(log'.dust_spawned) :
             /\ ~dust_pool'[j].active
             /\ j \notin SeqRange(log'.expired) => dust_pool'[j] = dust_pool[j]
       ]_vars

\* in one update a landing freed the slot the spawn step then filled, and an
\* expiry freed a slot the dust top-up then filled
C19_Witness ==
  /\ log.op = "update"
  /\ log.spawned \in LandedSlots
  /\ \E k \in SeqRange(log.expired) : k \in SeqRange(log.dust_spawned)

\* C21: when an update in which a particle reached ground returns,
\* trigger_timer is TRIGGER_DURATION and verbose_timer is VERBOSE_DURATION,
\* and the ground trigger flag of get_outputs reads true, whatever dt was.
C21_GroundTimersFull ==
  (log.op = "update" /\ Len(log.landed) > 0)
    => /\ trigger_timer = TRIGGER_DURATION
       /\ verbose_timer = VERBOSE_DURATION
       /\ get_outputs(Engine)[3]

\* a particle reached ground in an update whose dt is longer than both
\* durations
C21_Witness ==
  /\ log.op = "update"
  /\ Len(log.landed) > 0
  /\ log.dt > TRIGGER_DURATION
  /\ log.dt > VERBOSE_DURATION
  /\ trigger_timer = TRIGGER_DURATION

\* C22: after every update every active particle has 0 <= x <= SCREEN_WIDTH
\* (x is in 1/100 pixel).
C22_XInScreen ==
  \A i \in ActiveSlots(particle_pool) :
    /\ 0 <= particle_pool[i].x
    /\ particle_pool[i].x <= SCREEN_WIDTH * 100

\* after an update a particle that was not spawned by it sits on a border of
\* the screen, where the border handling put it
C22_Witness ==
  /\ log.op = "update"
  /\ \E i \in ActiveSlots(particle_pool) \ {log.spawned} :
       /\ particle_pool[i].x \in {0, SCREEN_WIDTH * 100}
       /\ particle_pool[i].y > 0

\* C23: the dust top-up loop of update terminates after at most MAX_DUST
\* activations: no activation of the loop finds the pool without an inactive
\* slot, each raises active_dust by one (so that active_dust ends at its
\* value at the start less the expired dust plus the dust spawned), and the
\* loop leaves with its guard false.
C23_TopUpTerminates ==
  [][log'.op = "update"
       => /\ ~log'.dust_full
          /\ Len(log'.dust_spawned) <= MAX_DUST
          /\ active_dust' = active_dust - Len(log'.expired)
                              + Len(log'.dust_spawned)
          /\ ~(active_dust' < max_particles' * 8 /\ active_dust' < MAX_DUST)
    ]_vars

\* the top-up loop stopped at the capacity of the pool, below max_particles*8
C23_Witness ==
  /\ log.op = "update"
  /\ Len(log.dust_spawned) > 0
  /\ active_dust = MAX_DUST
  /\ max_particles * 8 > MAX_DUST

\* the slots of the k-th pair that fired in the last call
FiredPair(k) == {log.fired[k][1], log.fired[k][2]}

\* C24: each particle takes part in at most one fired collision per update:
\* no two pairs that fired in one update have a particle in common.
C24_OncePerUpdate ==
  \A k \in 1..Len(log.fired) :
    \A l \in (k + 1)..Len(log.fired) :
      FiredPair(k) \cap FiredPair(l) = {}

\* a pair fired, and a pair the pass reached later overlapped, had one
\* particle in common with it and did not fire, although the cooldown of
\* its other particle had elapsed
C24_Witness ==
  \E k \in 1..Len(log.fired) :
    \E b \in 1..Len(log.blocked) :
      /\ FiredPair(k) \cap {log.blocked[b][1], log.blocked[b][2]} # {}
      /\ \/ log.fired[k][1] < log.blocked[b][1]
         \/ /\ log.fired[k][1] = log.blocked[b][1]
            /\ log.fired[k][2] < log.blocked[b][2]
      /\ \E o \in {log.blocked[b][1], log.blocked[b][2]} \ FiredPair(k) :
           time - particle_pool[o].last_collision_time
             >= COLLISION_COOLDOWN_TIME

\* C25: trigger_timer ends a step greater than it started only if a
\* particle reached ground in it, and collision_trigger_timer only if a
\* collision fired in it; an update in which no collision fired leaves the
\* collision value and output as they were and only counts
\* collision_trigger_timer down, whether or not a particle landed; an update
\* in which no particle landed leaves the ground output as it was and only
\* counts trigger_timer down, whether or not a collision fired.
C25_OwnEventOnly ==
  [][/\ trigger_timer' > trigger_timer => Len(log'.landed) > 0
     /\ collision_trigger_timer' > collision_trigger_timer
          => Len(log'.fired) > 0
     /\ (log'.op = "update" /\ Len(log'.fired) = 0)
          => /\ collision_cv' = collision_cv
             /\ collision_output' = collision_output
             /\ collision_trigger_timer'
                  = tick(collision_trigger_timer, log'.dt)
     /\ (log'.op = "update" /\ Len(log'.landed) = 0)
          => /\ last_ground_output' = last_ground_output
             /\ trigger_timer' = tick(trigger_timer, log'.dt)
    ]_vars

\* a particle landed in an update in which no collision fired, after an
\* earlier collision had left its output
C25_Witness ==
  /\ log.op = "update"
  /\ Len(log.landed) > 0
  /\ Len(log.fired) = 0
  /\ trigger_timer = TRIGGER_DURATION
  /\ collision_output # 0

=============================================================================
